---------------------------- MODULE Spec2Model ----------------------------
(***************************************************************************)
(* Table Comment Notepad (QGIS plugin): the comment dialog's session       *)
(* state, its load / update / revert handlers, the two comment backends    *)
(* and the Abstract fan-out, as a state machine.                           *)
(*                                                                         *)
(* A step of the machine is one user event handled to completion (Qt runs  *)
(* every slot synchronously on the GUI thread).  What the collaborators    *)
(* outside the plugin may do (a backend statement raising, a layer's       *)
(* metadata setter raising) is an input of the step.                       *)
(***************************************************************************)
EXTENDS Integers, Sequences, FiniteSets, TLC

(***************************************************************************)
(* Bounds of the model.                                                    *)
(***************************************************************************)
\* number of layers whose Abstract setter may misbehave in one fan-out
MaxFaults == 1
\* number of user events (typing, selecting, ticking, clicking) in a session
MaxEvents == 3

\* the comment texts of the model: the empty text and a non-empty one
Texts == {"", "a"}

\* the target-list marker of the relation-level entry
RELATION_SENTINEL == "__RELATION__"
\* SQL NULL in a description column
NULL == "<NULL>"
\* a dict without the key
NoEntry == "<none>"

(***************************************************************************)
(* The project: the loaded layers and what their sources decode to.        *)
(* p1 and p2 are the same PostgreSQL table opened twice (once through      *)
(* "localhost", once through the loopback literal); g1 is a GeoPackage     *)
(* table; q1 is a PostgreSQL layer defined by a subquery.  rel is the       *)
(* physical relation the backend resolves the address to.                  *)
(***************************************************************************)
LayerIds == {"g1", "p1", "p2", "q1"}

\* QgsProject.instance().mapLayers().values(): a QMap, iterated in id order
MapLayers == <<"g1", "p1", "p2", "q1">>

SourceOf(l) ==
    CASE l = "p1" -> [provider |-> "postgres", name |-> "roads",
                      host |-> "localhost", port |-> "5432", database |-> "gis",
                      schema |-> <<"s">>, table |-> <<"t">>, path |-> <<>>,
                      rel |-> "R"]
      [] l = "p2" -> [provider |-> "postgres", name |-> "roads",
                      host |-> "127.0.0.1", port |-> "5432", database |-> "gis",
                      schema |-> <<"s">>, table |-> <<"t">>, path |-> <<>>,
                      rel |-> "R"]
      [] l = "q1" -> [provider |-> "postgres", name |-> "joined",
                      host |-> "localhost", port |-> "5432", database |-> "gis",
                      schema |-> <<>>, table |-> <<"(", "t", ")">>, path |-> <<>>,
                      rel |-> ""]
      [] l = "g2" -> [provider |-> "ogr", name |-> "parcels copy",
                      host |-> "", port |-> "", database |-> "",
                      schema |-> <<>>, table |-> <<"t">>, path |-> <<"/d", "x", ".gpkg">>,
                      rel |-> "G"]
      [] l = "g3" -> [provider |-> "ogr", name |-> "parcels upper",
                      host |-> "", port |-> "", database |-> "",
                      schema |-> <<>>, table |-> <<"T">>, path |-> <<"/d", "x", ".gpkg">>,
                      rel |-> "G"]
      [] l = "p3" -> [provider |-> "postgres", name |-> "roads upper",
                      host |-> "127.0.0.1", port |-> "5432", database |-> "GIS",
                      schema |-> <<"s">>, table |-> <<"t">>, path |-> <<>>,
                      rel |-> "R"]
      [] l = "p4" -> [provider |-> "postgres", name |-> "roads",
                      host |-> "localhost", port |-> "5432", database |-> "osm",
                      schema |-> <<"s">>, table |-> <<"t">>, path |-> <<>>,
                      rel |-> "O"]
      [] l = "u1" -> [provider |-> "ogr", name |-> "dropped",
                      host |-> "", port |-> "", database |-> "",
                      schema |-> <<>>, table |-> <<>>, path |-> <<"/d", "x", ".gpkg">>,
                      rel |-> "G"]
      [] l = "x1" -> [provider |-> "memory", name |-> "scratch",
                      host |-> "", port |-> "", database |-> "",
                      schema |-> <<>>, table |-> <<>>, path |-> <<>>,
                      rel |-> ""]
      [] OTHER    -> [provider |-> "ogr", name |-> "parcels",
                      host |-> "", port |-> "", database |-> "",
                      schema |-> <<>>, table |-> <<"t">>, path |-> <<"/d", "x", ".gpkg">>,
                      rel |-> "G"]

\* Layers that are not in this project but may be in another: g2 is the table
\* of g1 opened a second time, g3 the same table opened under the name T, which
\* the file stores as t; p3 is the table of p1 with the database spelled GIS,
\* p4 the table s.t of another database of the same server, under the layer
\* name of p1; u1 is the GeoPackage of g1 opened without a layer name in the source, x1 a
\* layer of a provider the plugin does not know.
Handles == LayerIds \cup {"g2", "g3", "p3", "p4", "u1", "x1"}

\* what QgsDataSourceUri / decodeUri give for the layer's source
LayerSource == [l \in Handles |-> SourceOf(l)]

Relations == {"R", "G"}

\* the live columns of each relation, in ordinal order
Columns(r) == <<"c">>

AllColumns == UNION {{Columns(r)[i] : i \in 1..Len(Columns(r))} : r \in Relations}

Slots == Relations \X ({RELATION_SENTINEL} \cup AllColumns)

(***************************************************************************)
(* Strings that the code inspects are sequences of one-character strings.  *)
(***************************************************************************)
Letters == {"s", "t", "e", "l", "c", "f", "r", "o", "m", "j", "i", "n", "d", "_", "S"}
Digits == {"0", "1"}

\* _ident_rx: ^[A-Za-z_][A-Za-z0-9_$]*$
_ident_rx(s) ==
    /\ Len(s) > 0
    /\ s[1] \in Letters
    /\ \A i \in 2..Len(s) : s[i] \in Letters \cup Digits \cup {"$"}

\* sub in s, for sequences
Contains(s, sub) ==
    \E i \in 0..(Len(s) - Len(sub)) :
        \A j \in 1..Len(sub) : s[i + j] = sub[j]

_is_postgres_layer(l) == LayerSource[l].provider = "postgres"

\* str.lower() on a file extension
LowerExt(e) == IF e = ".GPKG" THEN ".gpkg" ELSE e

\* a path is <<directory, base name, extension>>, or <<>> when the uri has none
_is_gpkg_layer(l) ==
    /\ LayerSource[l].provider \in {"ogr", "gdal"}
    /\ Len(LayerSource[l].path) = 3
    /\ LowerExt(LayerSource[l].path[3]) = ".gpkg"

\* str.lower(), on the characters of the model
LowerChar(c) ==
    CASE c = "S" -> "s" [] c = "R" -> "r" [] c = "O" -> "o"
      [] c = "A" -> "a" [] c = "D" -> "d" [] c = "T" -> "t" [] OTHER -> c
Lower(s) == [i \in 1..Len(s) |-> LowerChar(s[i])]

\* str.strip(): the spaces at both ends removed
Strip(s) ==
    LET kept == {i \in 1..Len(s) : s[i] # " "}
    IN  IF kept = {} THEN <<>>
        ELSE SubSeq(s, CHOOSE i \in kept : \A k \in kept : i <= k,
                       CHOOSE i \in kept : \A k \in kept : i >= k)

\* the tests of _pg_is_query_layer on the uri's schema and table (lines 232-243)
QuerySource(uri_schema, uri_table) ==
    LET schema == Strip(uri_schema)
        table  == Strip(uri_table)
        tlow   == Lower(table)
    IN  \/ Len(schema) = 0
        \/ Len(table) = 0
        \/ table[1] = "("
        \/ Contains(tlow, <<"s", "e", "l", "e", "c", "t">>)
        \/ Contains(tlow, <<" ", "j", "o", "i", "n", " ">>)
        \/ Contains(tlow, <<" ", "f", "r", "o", "m", " ">>)
        \/ ~_ident_rx(schema)
        \/ ~_ident_rx(table)

_pg_is_query_layer(l) ==
    IF ~_is_postgres_layer(l) THEN FALSE
    ELSE QuerySource(LayerSource[l].schema, LayerSource[l].table)

\* raises RuntimeError when the path or the layer name is missing
_gpkg_path_and_table_raises(l) ==
    Len(LayerSource[l].path) = 0 \/ Len(LayerSource[l].table) = 0

\* _relation_key_from_layer raises where it reaches _gpkg_path_and_table and that raises
_relation_key_raises(l) ==
    /\ ~(_is_postgres_layer(l) /\ ~_pg_is_query_layer(l))
    /\ _is_gpkg_layer(l)
    /\ _gpkg_path_and_table_raises(l)

\* str.lower() on a host or a database name
LowerWord(w) ==
    CASE w = "GIS" -> "gis" [] w = "LOCALHOST" -> "localhost" [] OTHER -> w

\* None is modelled as <<>>
_relation_key_from_layer(l) ==
    IF _is_postgres_layer(l) /\ ~_pg_is_query_layer(l)
    THEN LET h == LowerWord(LayerSource[l].host)
         IN  <<"pg", IF h = "localhost" THEN "127.0.0.1" ELSE h,
               LayerSource[l].port, LowerWord(LayerSource[l].database),
               LayerSource[l].schema, LayerSource[l].table>>
    ELSE IF _is_gpkg_layer(l)
    THEN <<"gpkg", LayerSource[l].path, LayerSource[l].table>>
    ELSE <<>>

RECURSIVE FilterSeq(_, _)
FilterSeq(s, keep) ==
    IF s = <<>> THEN <<>>
    ELSE (IF Head(s) \in keep THEN <<Head(s)>> ELSE <<>>) \o FilterSeq(Tail(s), keep)

\* _layers_sharing_relation, had it left the other layers of the project out
_layers_sharing_relation_self_only(l) == <<l>>

\* the layers of a project that address the same relation, in project order
LayersSharing(project, l) ==
    LET key == _relation_key_from_layer(l)
    IN  IF key = <<>> THEN <<l>>
        ELSE FilterSeq(project,
                       {x \in {project[i] : i \in 1..Len(project)} :
                           ~_relation_key_raises(x) /\ _relation_key_from_layer(x) = key})

\* in the project of the model
_layers_sharing_relation(l) == LayersSharing(MapLayers, l)

supported_layers ==
    FilterSeq(MapLayers,
              {l \in LayerIds : \/ _is_gpkg_layer(l)
                                \/ _is_postgres_layer(l) /\ ~_pg_is_query_layer(l)})

\* os.path.basename(path)
Basename(path) == <<path[2], path[3]>>

_label_for_layer(l) ==
    IF _is_postgres_layer(l)
    THEN IF _pg_is_query_layer(l) THEN <<LayerSource[l].name, "PG", <<"[QUERY]">>>>
         ELSE <<LayerSource[l].name, "PG", LayerSource[l].schema, LayerSource[l].table>>
    ELSE IF _is_gpkg_layer(l) /\ ~_gpkg_path_and_table_raises(l)
    THEN <<LayerSource[l].name, "GPKG", Basename(LayerSource[l].path), LayerSource[l].table>>
    ELSE <<LayerSource[l].name>>

\* the combo's items: the first layer of every distinct label (UserRole)
RECURSIVE _populate_combo(_, _)
_populate_combo(layers, labels) ==
    IF layers = <<>> THEN <<>>
    ELSE LET lab == _label_for_layer(Head(layers))
         IN  IF lab \in labels THEN _populate_combo(Tail(layers), labels)
             ELSE <<Head(layers)>> \o _populate_combo(Tail(layers), labels \cup {lab})

ComboItems == _populate_combo(supported_layers, {})

\* The layer predicates, evaluated once per layer.
PostgresLayers == {l \in LayerIds : _is_postgres_layer(l)}
GpkgLayers == {l \in LayerIds : _is_gpkg_layer(l)}
QueryLayers == {l \in LayerIds : _is_postgres_layer(l) /\ _pg_is_query_layer(l)}
Undecodable == {l \in LayerIds : _gpkg_path_and_table_raises(l)}
KeyRaises == {l \in LayerIds : _relation_key_raises(l)}
Sharing == [l \in LayerIds |-> _layers_sharing_relation(l)]


(***************************************************************************)
(* The backends.  db maps a slot <<relation, target>> to the stored        *)
(* description, NULL when there is none.                                   *)
(***************************************************************************)
Rel(l) == LayerSource[l].rel

\* row[0] if row and row[0] else ""
OrEmpty(v) == IF v = NULL THEN "" ELSE v
\* text if text != "" else None
OrNull(t) == IF t = "" THEN NULL ELSE t

\* SELECT obj_description(...): rows[0][0] or ""
_fetch_comment(db, l) == OrEmpty(db[<<Rel(l), RELATION_SENTINEL>>])

\* SELECT description FROM gpkg_contents WHERE table_name = ?
_gpkg_fetch_comment(db, l) == OrEmpty(db[<<Rel(l), RELATION_SENTINEL>>])

\* COMMENT ON <kw> ... IS NULL / IS $tag$text$tag$
_set_comment(db, l, text) == [db EXCEPT ![<<Rel(l), RELATION_SENTINEL>>] = OrNull(text)]

\* UPDATE gpkg_contents SET description = ? WHERE table_name = ?
_gpkg_set_comment(db, l, text) == [db EXCEPT ![<<Rel(l), RELATION_SENTINEL>>] = OrNull(text)]

\* a column the relation does not have has no row: the fetch returns ""
HasColumn(l, col) == \E i \in 1..Len(Columns(Rel(l))) : Columns(Rel(l))[i] = col

_pg_fetch_column_comment(db, l, col) ==
    IF HasColumn(l, col) THEN OrEmpty(db[<<Rel(l), col>>]) ELSE ""

_gpkg_fetch_column_comment(db, l, col) ==
    IF HasColumn(l, col) THEN OrEmpty(db[<<Rel(l), col>>]) ELSE ""

\* COMMENT ON COLUMN ... IS NULL / IS $tag$text$tag$
_pg_set_column_comment(db, l, col, text) == [db EXCEPT ![<<Rel(l), col>>] = OrNull(text)]

\* INSERT ... ON CONFLICT(table_name, column_name) DO UPDATE SET description
_gpkg_set_column_comment(db, l, col, text) == [db EXCEPT ![<<Rel(l), col>>] = OrNull(text)]

_pg_list_columns(l) == Columns(Rel(l))
_gpkg_list_columns(l) == Columns(Rel(l))

(***************************************************************************)
(* The dialog.  A record d holds the widgets' state and the two baseline   *)
(* dicts; the handlers are functions from d (and the step's inputs) to d.  *)
(*   items    combo's item data (UserRole): a layer id per item            *)
(*   idx      combo.currentIndex()                                         *)
(*   targets  comboTarget's item data, <<kind, col>> per item              *)
(*   tidx     comboTarget.currentIndex(), -1 when the list is empty        *)
(*   text     the editor's text                                            *)
(*   origRel  _original_by_layerid                                         *)
(*   origCol  _original_column_by_layerid                                  *)
(*   sync     chkSyncAll.isEnabled()                                       *)
(*   btn      btnUpdate / btnRevert isEnabled()                            *)
(*   status   which status line is shown                                   *)
(* The inputs io say which backend calls of the step raise.                *)
(***************************************************************************)
_current_layer(d) == d.items[d.idx + 1]

\* QueryGuard, had it shown the status only
QueryGuard_status_only(d) == [d EXCEPT !.status = "Unsupported"]

\* the query-layer guard of the load handlers: lines 566-571, 617-622
QueryGuard(d) ==
    [d EXCEPT !.text = "", !.status = "Unsupported", !.btn = FALSE]

\* _load_selected up to the baseline assignment (lines 564-604)
LoadRelation(d, db, io) ==
    LET lyr == _current_layer(d)
    IN  IF lyr \in QueryLayers THEN QueryGuard(d)
        ELSE
        LET raised == IF lyr \in PostgresLayers THEN ~io.fetch
                      ELSE IF lyr \in GpkgLayers
                      THEN lyr \in Undecodable \/ ~io.fetch
                      ELSE FALSE
            comment == IF raised THEN ""
                       ELSE IF lyr \in PostgresLayers THEN _fetch_comment(db, lyr)
                       ELSE IF lyr \in GpkgLayers THEN _gpkg_fetch_comment(db, lyr)
                       ELSE ""
        IN  [d EXCEPT !.btn = TRUE,
                      !.text = comment,
                      !.status = IF raised THEN "LoadError" ELSE "Loaded",
                      !.origRel = [d.origRel EXCEPT ![lyr] = comment]]

\* the column-level load of _load_target (lines 639-660)
LoadColumn(d, db, io, col) ==
    LET lyr == _current_layer(d)
        raised == IF lyr \in PostgresLayers THEN ~io.colfetch
                  ELSE IF lyr \in GpkgLayers
                  THEN lyr \in Undecodable \/ ~io.colfetch
                  ELSE FALSE
        comment == IF raised THEN ""
                   ELSE IF lyr \in PostgresLayers
                   THEN _pg_fetch_column_comment(db, lyr, col)
                   ELSE IF lyr \in GpkgLayers
                   THEN _gpkg_fetch_column_comment(db, lyr, col)
                   ELSE ""
    IN  [d EXCEPT !.text = comment,
                  !.status = IF raised THEN "ColumnLoadError" ELSE "Loaded",
                  !.origCol = [d.origCol EXCEPT ![<<lyr, col>>] = comment]]

\* The relation-level entry is item 0 of the list, so the _load_selected that
\* the relation branch calls finds currentIndex() = 0 and stops after the
\* baseline assignment: its refresh of a column view (lines 606-608) is skipped.
_load_target(d, db, io) ==
    LET lyr == _current_layer(d)
    IN  IF Len(d.targets) = 0 THEN d
        ELSE IF lyr \in QueryLayers THEN QueryGuard(d)
        ELSE
        LET kind == d.targets[d.tidx + 1][1]
            col  == d.targets[d.tidx + 1][2]
            d1   == [d EXCEPT !.btn = TRUE, !.sync = (kind = RELATION_SENTINEL)]
        IN  IF kind = RELATION_SENTINEL THEN LoadRelation(d1, db, io)
            ELSE LoadColumn(d1, db, io, col)

_load_selected(d, db, io) ==
    LET lyr == _current_layer(d)
        d1  == LoadRelation(d, db, io)
    IN  IF lyr \in QueryLayers THEN d1
        \* if user was viewing a column, refresh that view to match new layer
        ELSE IF Len(d1.targets) > 0 /\ d1.tidx > 0 THEN _load_target(d1, db, io)
        ELSE d1

RECURSIVE ColumnItems(_)
ColumnItems(cols) ==
    IF cols = <<>> THEN <<>>
    ELSE <<<<"col", Head(cols)>>>> \o ColumnItems(Tail(cols))

\* The list is refilled with its signals blocked, and the first item inserted
\* into an empty QComboBox becomes the current one, so setCurrentIndex(0) finds
\* index 0 current already and emits no currentIndexChanged: nothing is loaded.
_rebuild_target_list(d, io) ==
    LET lyr == _current_layer(d)
    IN  IF lyr \in QueryLayers
        THEN [d EXCEPT !.targets = <<>>, !.tidx = -1]
        ELSE
        LET raised == IF lyr \in PostgresLayers THEN ~io.list
                      ELSE IF lyr \in GpkgLayers
                      THEN lyr \in Undecodable \/ ~io.list
                      ELSE FALSE
            cols == IF raised THEN <<>>
                    ELSE IF lyr \in PostgresLayers THEN _pg_list_columns(lyr)
                    ELSE IF lyr \in GpkgLayers THEN _gpkg_list_columns(lyr)
                    ELSE <<>>
        IN  [d EXCEPT !.targets = <<<<RELATION_SENTINEL, "">>>> \o ColumnItems(cols),
                      !.tidx = 0]


(***************************************************************************)
(* The Abstract fan-out.  abs maps a layer id to the layer's Abstract.     *)
(* What a layer's setters do is an input, one mode per layer:              *)
(*   "ok"      the text is set: through metadata() / setMetadata, or,      *)
(*             those raising, through layer.setAbstract                    *)
(*   "swallow" the metadata calls raise, the layer has no setAbstract      *)
(*   "raise"   the metadata calls raise, and layer.setAbstract raises too  *)
(***************************************************************************)
Modes == {"ok", "swallow", "raise"}
AllOk == [l \in LayerIds |-> "ok"]
ModeChoices ==
    {m \in [LayerIds -> Modes] : Cardinality({l \in LayerIds : m[l] # "ok"}) <= MaxFaults}

\* the result: the Abstracts, and whether the exception left the function
_apply_abstract_to_layer(abs, l, txt, mode) ==
    CASE mode = "ok"      -> [abs |-> [abs EXCEPT ![l] = txt], raised |-> FALSE]
      [] mode = "swallow" -> [abs |-> abs, raised |-> FALSE]
      [] OTHER            -> [abs |-> abs, raised |-> TRUE]

RECURSIVE ApplyEach(_, _, _, _)
ApplyEach(abs, targets, txt, modes) ==
    IF targets = <<>> THEN [abs |-> abs, raised |-> FALSE]
    ELSE LET one == _apply_abstract_to_layer(abs, Head(targets), txt, modes[Head(targets)])
         IN  IF one.raised THEN one
             ELSE ApplyEach(one.abs, Tail(targets), txt, modes)

\* the result when the fan-out is not called, or stops before any setter
NoFan(abs, raised, n) == [abs |-> abs, raised |-> raised, n |-> n, modes |-> AllOk]

Range(s) == {s[i] : i \in 1..Len(s)}

\* the count, had it been of the siblings only, leaving base_layer out
Returned_siblings_only(targets) == Len(targets) - 1

\* return len(targets)
Returned(targets) == Len(targets)

\* what _apply_abstract gives once its loop has ended as done says: n is the
\* value returned, -1 when nothing is returned because an exception left the
\* function; modes keeps what the setters of the layers reached did
Fanned(done, targets, modes) ==
    [abs |-> done.abs, raised |-> done.raised,
     n |-> IF done.raised THEN -1 ELSE Returned(targets),
     modes |-> [l \in LayerIds |-> IF l \in Range(targets) THEN modes[l] ELSE "ok"]]

\* for l in targets: ...; return len(targets)
ApplyTargets(abs, targets, txt, modes) ==
    Fanned(ApplyEach(abs, targets, txt, modes), targets, modes)

\* checked is chkSyncAll.isChecked()
_apply_abstract(abs, base_layer, txt, checked, modes) ==
    IF ~checked THEN NoFan(abs, FALSE, 0)
    ELSE IF base_layer \in KeyRaises THEN NoFan(abs, TRUE, -1)
    ELSE ApplyTargets(abs, Sharing[base_layer], txt, modes)

(***************************************************************************)
(* Update and revert.  The result of a handler: the dialog d, the backend  *)
(* db, the Abstracts abs, and what the handler did:                        *)
(*   writes   the number of comment writes sent to the backend             *)
(*   wfail    the write raised                                             *)
(*   n        what _apply_abstract returned (-1: not called, or it raised) *)
(*   modes    what the setters of the layers _apply_abstract reached did   *)
(***************************************************************************)
Get(orig, k) == IF orig[k] = NoEntry THEN "" ELSE orig[k]

\* txt != original, the test that guards every comment write of an update
NeedsWrite(txt, original) == txt # original

\* SyncsAbstract, had the column branch synced the Abstract as well
SyncsAbstract_every_target(kind) == TRUE

\* the branch of the handler that syncs the Abstract: the relation-level one
SyncsAbstract(kind) == kind = RELATION_SENTINEL

\* OnError, had the handler cleared the editor as a failed load does
OnError_clearing_editor(d, what) == [d EXCEPT !.status = what, !.text = ""]

\* except Exception as e: status "Update failed" / "Revert failed", a message box
OnError(d, what) == [d EXCEPT !.status = what]

Baseline(d, lyr, kind, col) ==
    IF kind = RELATION_SENTINEL THEN Get(d.origRel, lyr) ELSE Get(d.origCol, <<lyr, col>>)

SetBaseline(d, lyr, kind, col, txt) ==
    IF kind = RELATION_SENTINEL
    THEN [d EXCEPT !.origRel = [d.origRel EXCEPT ![lyr] = txt]]
    ELSE [d EXCEPT !.origCol = [d.origCol EXCEPT ![<<lyr, col>>] = txt]]

\* RestoreOriginal, had it left the editor as the user edited it
RestoreOriginal_baseline_only(d, lyr, kind, col, original) ==
    SetBaseline(d, lyr, kind, col, original)

\* revert, after its write: the editor and the baseline take the original text
RestoreOriginal(d, lyr, kind, col, original) ==
    [SetBaseline(d, lyr, kind, col, original) EXCEPT !.text = original]

\* the statement(s) of one comment write raise
WriteRaises(lyr, kind, col, io) ==
    IF lyr \in PostgresLayers
    THEN IF kind = RELATION_SENTINEL THEN ~io.lookup \/ ~io.exec
         ELSE ~HasColumn(lyr, col) \/ ~io.exec
    ELSE ~io.exec

Write(db, lyr, kind, col, txt) ==
    IF lyr \in PostgresLayers
    THEN IF kind = RELATION_SENTINEL THEN _set_comment(db, lyr, txt)
         ELSE _pg_set_column_comment(db, lyr, col, txt)
    ELSE IF kind = RELATION_SENTINEL THEN _gpkg_set_comment(db, lyr, txt)
         ELSE _gpkg_set_column_comment(db, lyr, col, txt)

Outcome(d, db, writes, wfail, fan) ==
    [d |-> d, db |-> db, abs |-> fan.abs, writes |-> writes, wfail |-> wfail,
     n |-> fan.n, modes |-> fan.modes]

\* update from the fan-out on (lines 693-706; for a column, 725-732): db1 and
\* writes are the backend and the number of writes after the write step, fan
\* is what the fan-out did
AfterWrite(d, lyr, kind, col, txt, original, db1, writes, fan) ==
    IF fan.raised
    THEN Outcome(OnError(d, "UpdateFailed"), db1, writes, FALSE, fan)
    ELSE IF txt = original
    THEN Outcome([d EXCEPT !.status = IF fan.n > 0 THEN "NoChangesSynced" ELSE "NoChanges"],
                 db1, writes, FALSE, fan)
    ELSE Outcome([SetBaseline(d, lyr, kind, col, txt) EXCEPT !.status = "Updated"],
                 db1, writes, FALSE, fan)

_update_comment(d, db, abs, checked, io, modes) ==
    LET lyr  == _current_layer(d)
        kind == d.targets[d.tidx + 1][1]
        col  == d.targets[d.tidx + 1][2]
        txt  == d.text
        original == Baseline(d, lyr, kind, col)
        pg == lyr \in PostgresLayers
        gp == lyr \in GpkgLayers
        nofan == NoFan(abs, FALSE, -1)
    IN  IF lyr \in QueryLayers THEN Outcome(d, db, 0, FALSE, nofan)
        ELSE IF ~pg /\ ~gp THEN Outcome(d, db, 0, FALSE, nofan)
        ELSE IF ~pg /\ lyr \in Undecodable
        THEN Outcome(OnError(d, "UpdateFailed"), db, 0, FALSE, nofan)
        ELSE IF NeedsWrite(txt, original) /\ WriteRaises(lyr, kind, col, io)
        THEN Outcome(OnError(d, "UpdateFailed"), db, 1, TRUE, nofan)
        ELSE AfterWrite(d, lyr, kind, col, txt, original,
                        IF NeedsWrite(txt, original) THEN Write(db, lyr, kind, col, txt)
                        ELSE db,
                        IF NeedsWrite(txt, original) THEN 1 ELSE 0,
                        IF SyncsAbstract(kind)
                        THEN _apply_abstract(abs, lyr, txt, checked, modes)
                        ELSE nofan)

\* revert with the editor equal to the baseline, from the fan-out on (754-756)
NoChange(d, db, fan) ==
    IF fan.raised
    THEN Outcome(OnError(d, "RevertFailed"), db, 0, FALSE, fan)
    ELSE Outcome([d EXCEPT !.status = IF fan.n > 0 THEN "NoChangesSynced" ELSE "NoChanges"],
                 db, 0, FALSE, fan)

\* revert from the fan-out on, its write and its restore done (772-774, 797-798)
Reverted(d1, db1, fan) ==
    IF fan.raised
    THEN Outcome(OnError(d1, "RevertFailed"), db1, 1, FALSE, fan)
    ELSE Outcome([d1 EXCEPT !.status = "Reverted"], db1, 1, FALSE, fan)

_revert_comment(d, db, abs, checked, io, modes) ==
    LET lyr  == _current_layer(d)
        kind == d.targets[d.tidx + 1][1]
        col  == d.targets[d.tidx + 1][2]
        original == Baseline(d, lyr, kind, col)
        pg == lyr \in PostgresLayers
        gp == lyr \in GpkgLayers
        nofan == NoFan(abs, FALSE, -1)
    IN  IF lyr \in QueryLayers THEN Outcome(d, db, 0, FALSE, nofan)
        ELSE IF d.text = original
        THEN NoChange(d, db, IF SyncsAbstract(kind)
                             THEN _apply_abstract(abs, lyr, original, checked, modes)
                             ELSE nofan)
        ELSE IF ~pg /\ ~gp THEN Outcome(d, db, 0, FALSE, nofan)
        ELSE IF ~pg /\ lyr \in Undecodable
        THEN Outcome(OnError(d, "RevertFailed"), db, 0, FALSE, nofan)
        ELSE IF WriteRaises(lyr, kind, col, io)
        THEN Outcome(OnError(d, "RevertFailed"), db, 1, TRUE, nofan)
        ELSE Reverted(RestoreOriginal(d, lyr, kind, col, original),
                      Write(db, lyr, kind, col, original),
                      IF SyncsAbstract(kind)
                      THEN _apply_abstract(abs, lyr, original, checked, modes)
                      ELSE nofan)

(***************************************************************************)
(* The state.                                                              *)
(*   dlg       the dialog (the record the handlers work on)                *)
(*   db        the stored comments                                         *)
(*   abstract  every layer's Abstract                                      *)
(*   syncAll   chkSyncAll.isChecked()                                      *)
(*   last      what the last user event was and what its handler did       *)
(*   events    the number of user events handled so far                    *)
(***************************************************************************)
VARIABLES dlg, db, abstract, syncAll, last, events

vars == <<dlg, db, abstract, syncAll, last, events>>

\* one more user event, while the session lasts
Event == events < MaxEvents /\ events' = events + 1

\* which backend calls of a step succeed
LoadIO == [fetch : BOOLEAN, colfetch : BOOLEAN, list : BOOLEAN]
WriteIO == [lookup : BOOLEAN, exec : BOOLEAN]

\* The inputs a step can read: the others are held at "succeeds".
ObjectIO == {io \in LoadIO : dlg.tidx > 0 \/ io.colfetch}
TargetIO(i) == {io \in LoadIO : io.list /\ (IF i = 0 THEN io.colfetch ELSE io.fetch)}
ClickIO ==
    {io \in WriteIO : (dlg.tidx = 0 /\ _current_layer(dlg) \in PostgresLayers) \/ io.lookup}
FanModes ==
    IF syncAll /\ dlg.tidx = 0
    THEN {m \in ModeChoices :
            \A l \in LayerIds :
                m[l] = "ok" \/ l \in Range(Sharing[_current_layer(dlg)])}
    ELSE {AllOk}

\* a layer's Abstract before the plugin touched it
InitialAbstract == "<layer abstract>"

Did(op, out) ==
    [op |-> op, writes |-> out.writes, wfail |-> out.wfail, n |-> out.n, modes |-> out.modes]

Nothing == [writes |-> 0, wfail |-> FALSE, n |-> -1, modes |-> AllOk]

\* CommentNotepadDialog.__init__ with layers, at least one
Constructed(layers) ==
    /\ db \in [Slots -> (Texts \ {""}) \cup {NULL}]
    /\ abstract = [l \in LayerIds |-> InitialAbstract]
    /\ syncAll \in BOOLEAN
    /\ last = Did("init", Nothing)
    /\ events = 0
    /\ \E io1 \in LoadIO, io2 \in LoadIO :
          LET d0 == [items |-> _populate_combo(layers, {}), idx |-> 0, targets |-> <<>>, tidx |-> -1, text |-> "",
                     origRel |-> [l \in LayerIds |-> NoEntry],
                     origCol |-> [k \in LayerIds \X AllColumns |-> NoEntry],
                     sync |-> TRUE, btn |-> TRUE, status |-> ""]
          IN  dlg = _load_target(_rebuild_target_list(_load_selected(d0, db, io1), io1),
                                 db, io2)

\* CommentNotepadDialog(parent): layers is None, so supported_layers() is used
Init == Constructed(supported_layers)

\* CommentNotepadDialog(parent, layers) with every layer of the project
InitLayers == Constructed(MapLayers)

\* the user types in the editor
EditText ==
    \E t \in Texts :
        /\ Event
        /\ t # dlg.text
        /\ dlg' = [dlg EXCEPT !.text = t]
        /\ last' = Did("edit", Nothing)
        /\ UNCHANGED <<db, abstract, syncAll>>

\* the user ticks or unticks the checkbox, which must be enabled
ToggleSync ==
    /\ Event
    /\ dlg.sync
    /\ syncAll' = ~syncAll
    /\ last' = Did("toggle", Nothing)
    /\ UNCHANGED <<dlg, db, abstract>>

\* combo.currentIndexChanged: _load_selected, then _rebuild_target_list, the
\* order in which __init__ connects them
SelectObject ==
    \E i \in 0..(Len(dlg.items) - 1), io \in ObjectIO :
        /\ Event
        /\ i # dlg.idx
        /\ dlg' = _rebuild_target_list(_load_selected([dlg EXCEPT !.idx = i], db, io), io)
        /\ last' = Did("select", Nothing)
        /\ UNCHANGED <<db, abstract, syncAll>>

\* comboTarget.currentIndexChanged: _load_target
SelectTarget ==
    \E i \in 0..(Len(dlg.targets) - 1) : \E io \in TargetIO(i) :
        /\ Event
        /\ i # dlg.tidx
        /\ dlg' = _load_target([dlg EXCEPT !.tidx = i], db, io)
        /\ last' = Did("target", Nothing)
        /\ UNCHANGED <<db, abstract, syncAll>>

\* btnUpdate.clicked
UpdateComment ==
    \E io \in ClickIO, modes \in FanModes :
        \E out \in {_update_comment(dlg, db, abstract, syncAll, io, modes)} :
            /\ Event
            /\ dlg.btn
            /\ dlg' = out.d
            /\ db' = out.db
            /\ abstract' = out.abs
            /\ last' = Did("update", out)
            /\ UNCHANGED syncAll

\* btnRevert.clicked
RevertComment ==
    \E io \in ClickIO, modes \in FanModes :
        \E out \in {_revert_comment(dlg, db, abstract, syncAll, io, modes)} :
            /\ Event
            /\ dlg.btn
            /\ dlg' = out.d
            /\ db' = out.db
            /\ abstract' = out.abs
            /\ last' = Did("revert", out)
            /\ UNCHANGED syncAll

Next ==
    \/ EditText
    \/ ToggleSync
    \/ SelectObject
    \/ SelectTarget
    \/ UpdateComment
    \/ RevertComment

Spec == Init /\ [][Next]_vars

\* the session of a dialog that was given the layers to show
SpecLayers == InitLayers /\ [][Next]_vars


(***************************************************************************)
(* The properties.  A step is an update (a revert, ...) when it makes      *)
(* last.op so; events changes in every step, so none of them stutters.     *)
(***************************************************************************)
Cur == _current_layer(dlg)
Kind == dlg.targets[dlg.tidx + 1][1]
Col == dlg.targets[dlg.tidx + 1][2]

\* the EditBaseline entry of (handle, target), NoEntry when there is none
Entry(d, lyr, kind, col) ==
    IF kind = RELATION_SENTINEL THEN d.origRel[lyr] ELSE d.origCol[<<lyr, col>>]

\* the handles that resolve to the RelationKey of the selected one
SameKey(l) == {x \in LayerIds : _relation_key_from_layer(x) = _relation_key_from_layer(l)}

\* the backend slot of the selected (handle, target)
CurSlot == <<Rel(Cur), IF Kind = RELATION_SENTINEL THEN RELATION_SENTINEL ELSE Col>>

StepOf(op) == events' # events /\ last'.op = op

\* C1: an update that wrote the text successfully is followed, when update is
\* called again at once with the same text, by an update that writes nothing.
C1_SecondUpdateWritesNothing ==
    [][(last.op = "update" /\ last.writes = 1 /\ ~last.wfail /\ StepOf("update"))
          => last'.writes = 0]_vars

\* C2: when the backend write of an update raises, the baselines keep their
\* prior values, no layer's Abstract changes and the editor keeps the text.
C2_FailedWriteChangesNothing ==
    [][(StepOf("update") /\ last'.wfail)
          => /\ Entry(dlg', Cur, Kind, Col) = Entry(dlg, Cur, Kind, Col)
             /\ dlg'.origRel = dlg.origRel
             /\ dlg'.origCol = dlg.origCol
             /\ abstract' = abstract
             /\ dlg'.text = dlg.text
             /\ dlg'.status = "UpdateFailed"]_vars

\* a relation-level update with the checkbox ticked, whose write raised while
\* the editor held an edit the baseline does not have
C2_Witness ==
    /\ last.op = "update" /\ last.wfail
    /\ dlg.tidx = 0 /\ syncAll
    /\ dlg.text = "a" /\ Baseline(dlg, Cur, Kind, Col) = ""

\* C3: when the fetch of loadTarget fails, the editor is cleared, the error is
\* shown, and the baseline entry of (handle, target) keeps the value it had.
C3_FailedLoadKeepsBaseline ==
    [][(StepOf("target") /\ dlg'.status \in {"LoadError", "ColumnLoadError"}
          /\ Entry(dlg, Cur', Kind', Col') # NoEntry)
          => /\ dlg'.text = ""
             /\ Entry(dlg', Cur', Kind', Col') = Entry(dlg, Cur', Kind', Col')]_vars

\* C4: after selectObject the target is the relation-level one and the editor
\* shows the relation-level comment of the selected object, its baseline.
C4_SelectShowsRelationComment ==
    last.op = "select"
        => /\ Kind = RELATION_SENTINEL
           /\ dlg.text = Baseline(dlg, Cur, RELATION_SENTINEL, "")

\* C5: once the backend write of an update has succeeded, the baseline equals
\* the new text, however the fan-out ends.
C5_BaselineSetOnceWritten ==
    (last.op = "update" /\ last.writes = 1 /\ ~last.wfail)
        => Baseline(dlg, Cur, Kind, Col) = dlg.text

\* C6: an update with the text equal to the baseline writes nothing; at
\* relation level with the checkbox ticked, every sibling whose setter takes
\* the text has its Abstract set to that text.
C6_EqualTextStillFansOut ==
    [][(StepOf("update") /\ dlg.text = Baseline(dlg, Cur, Kind, Col))
          => /\ last'.writes = 0
             /\ db' = db
             /\ (Kind = RELATION_SENTINEL /\ syncAll)
                   => \A s \in SameKey(Cur) :
                         last'.modes[s] = "ok" => abstract'[s] = dlg.text]_vars

\* C7: revert writes (the baseline value) only when the editor differs from
\* the baseline; when that write succeeds the editor equals the baseline and
\* the baseline is the value it was; when the editor equals the baseline
\* nothing is written.
C7_RevertWritesBaselineWhenEdited ==
    [][StepOf("revert")
          => /\ last'.writes = 1 => dlg.text # Baseline(dlg, Cur, Kind, Col)
             /\ dlg.text = Baseline(dlg, Cur, Kind, Col)
                   => (last'.writes = 0 /\ db' = db)
             /\ (last'.writes = 1 /\ ~last'.wfail)
                   => /\ dlg'.text = Baseline(dlg', Cur, Kind, Col)
                      /\ Baseline(dlg', Cur, Kind, Col) = Baseline(dlg, Cur, Kind, Col)
                      /\ db' = [db EXCEPT ![CurSlot] = OrNull(Baseline(dlg, Cur, Kind, Col))]]_vars

\* a revert that wrote the baseline "a" back over an emptied editor
C7_Witness ==
    /\ last.op = "revert" /\ last.writes = 1 /\ ~last.wfail
    /\ dlg.status = "Reverted"
    /\ dlg.text = "a" /\ db[CurSlot] = "a"

\* C8: a successful relation-level update with the checkbox ticked sets the
\* Abstract of every handle of the selected handle's RelationKey (whose setter
\* takes the text) to the updated text; unticked, no handle's Abstract changes.
C8_FanOutReachesEverySibling ==
    [][(StepOf("update") /\ Kind = RELATION_SENTINEL /\ dlg'.status # "UpdateFailed")
          => IF syncAll
             THEN \A s \in SameKey(Cur) :
                     last'.modes[s] = "ok" => abstract'[s] = dlg.text
             ELSE abstract' = abstract]_vars

\* an update of p1's relation comment that reached p1 and its duplicate p2
C8_Witness ==
    /\ last.op = "update" /\ dlg.status = "Updated" /\ syncAll
    /\ Cur = "p1" /\ dlg.text = "a"
    /\ abstract["p1"] = "a" /\ abstract["p2"] = "a" /\ abstract["g1"] = InitialAbstract

\* C9: an update or a revert at a column target changes no layer's Abstract,
\* whatever the checkbox says.
C9_ColumnsNeverFanOut ==
    [][((StepOf("update") \/ StepOf("revert")) /\ Kind # RELATION_SENTINEL)
          => abstract' = abstract]_vars

\* a column comment updated with the checkbox ticked
C9_Witness ==
    /\ last.op = "update" /\ dlg.status = "Updated" /\ last.writes = 1
    /\ Kind = "col" /\ syncAll

\* C10: fanOut returns 0 when it is disabled and when the selected handle has
\* no siblings beyond itself.
C10_ZeroWithoutSiblings ==
    (last.op \in {"update", "revert"} /\ last.n >= 0)
        => /\ ~syncAll => last.n = 0
           /\ SameKey(Cur) = {Cur} => last.n = 0

\* C10 as amended: fanOut returns 0 when it is disabled, and otherwise the
\* number of handles of the selected handle's RelationKey, the handle itself
\* counted: 1 when it has no siblings.
C10_CountsSelfAndSiblings ==
    (last.op \in {"update", "revert"} /\ last.n >= 0)
        => last.n = IF syncAll THEN Cardinality(SameKey(Cur)) ELSE 0

\* the fan-out from g1, which has no sibling, returned 1
C10_Witness ==
    /\ last.op = "update" /\ Cur = "g1" /\ syncAll
    /\ SameKey(Cur) = {Cur} /\ last.n = 1
    /\ abstract["g1"] = dlg.text

\* C11: when the Abstract setter of a sibling throws during the fan-out of an
\* update whose backend write did not fail, every sibling whose setter works
\* still takes the text, the count returned is the number of siblings that
\* took it, and the update does not report a failure.
C11_FanOutToleratesFailingSibling ==
    [][(StepOf("update") /\ Kind = RELATION_SENTINEL /\ syncAll /\ ~last'.wfail
          /\ \E s \in SameKey(Cur) : last'.modes[s] # "ok")
          => /\ \A s \in SameKey(Cur) : last'.modes[s] = "ok" => abstract'[s] = dlg.text
             /\ last'.n = Cardinality({s \in SameKey(Cur) : last'.modes[s] = "ok"})
             /\ dlg'.status # "UpdateFailed"]_vars


(***************************************************************************)
(* Properties of SpecLayers.                                               *)
(***************************************************************************)
\* backends that hold the same text everywhere
UniformBackends == {[s \in Slots |-> t] : t \in Texts \cup {NULL}}

\* the three load handlers, invoked in the order of a selection and a target
\* change, on backend b with the backend calls succeeding as io says
Reloaded(d, b, io) ==
    _load_target(_rebuild_target_list(_load_selected(d, b, io), io), b, io)

\* C12: while a query layer is the selected object, the update and revert
\* buttons are disabled, the target list is empty and, right after a load,
\* select, update or revert action, the editor is empty; the handlers, were
\* they invoked, would do this: update and revert write nothing and change
\* nothing, and the load handlers give the same dialog, editor empty, whatever
\* the backend holds and whether or not its calls succeed (they read nothing).
C12_QueryLayerIsDisabled ==
    Cur \in QueryLayers
        => /\ ~dlg.btn
           /\ dlg.status = "Unsupported"
           /\ dlg.targets = <<>>
           /\ last.op \in {"init", "select", "target", "update", "revert"} => dlg.text = ""
           /\ \A io \in WriteIO :
                 /\ _update_comment(dlg, db, abstract, syncAll, io, AllOk)
                       = Outcome(dlg, db, 0, FALSE, NoFan(abstract, FALSE, -1))
                 /\ _revert_comment(dlg, db, abstract, syncAll, io, AllOk)
                       = Outcome(dlg, db, 0, FALSE, NoFan(abstract, FALSE, -1))
           /\ \A b \in UniformBackends, io \in LoadIO :
                 Reloaded(dlg, b, io) = [dlg EXCEPT !.text = ""]

\* the query layer q1 selected after g1, whose comment "a" had been loaded and
\* whose column target had been opened
C12_Witness ==
    /\ Cur = "q1" /\ last.op = "select"
    /\ dlg.origRel["g1"] = "a" /\ dlg.origCol[<<"g1", "c">>] # NoEntry




(***************************************************************************)
(* _pg_is_query_layer as a function of the source.  A call is a step: last *)
(* holds the schema and the table of the uri, then the value returned;     *)
(* the dialog's variables are not involved.                                *)
(***************************************************************************)
\* number of fragments a table name is made of
MaxParts == 2

\* what the names of the uris are made of
Fragments ==
    {<<"t">>, <<"1">>, <<"$">>, <<" ">>, <<"(">>, <<".">>,
     <<"s", "e", "l", "e", "c", "t">>, <<"S", "e", "l", "e", "c", "t">>}

RECURSIVE NamesOf(_)
NamesOf(n) ==
    IF n = 0 THEN {<<>>}
    ELSE LET shorter == NamesOf(n - 1)
         IN  shorter \cup {p \o f : p \in shorter, f \in Fragments}

\* no dialog, no backend
NoDialog ==
    /\ dlg = <<>>
    /\ db = <<>>
    /\ abstract = <<>>
    /\ syncAll = FALSE
    /\ events = 0

\* a PostgreSQL layer whose uri has this schema and this table
InitQueryLayer ==
    /\ NoDialog
    /\ \E schema \in NamesOf(MaxParts - 1), table \in NamesOf(MaxParts) :
          last = [op |-> "source", schema |-> schema, table |-> table, query |-> FALSE]

\* _pg_is_query_layer(lyr)
CallPgIsQueryLayer ==
    /\ last.op = "source"
    /\ last' = [last EXCEPT !.op = "_pg_is_query_layer",
                            !.query = QuerySource(last.schema, last.table)]
    /\ events' = events + 1
    /\ UNCHANGED <<dlg, db, abstract, syncAll>>

SpecQueryLayer == InitQueryLayer /\ [][CallPgIsQueryLayer]_vars

\* C13: a PostgreSQL source whose schema and table are both non-empty and both
\* plain identifiers (a letter or underscore, then letters, digits, underscores
\* and dollar signs) is classified as not a query layer.
C13_PlainIdentifiersAreNotQueries ==
    (/\ last.op = "_pg_is_query_layer"
     /\ _ident_rx(last.schema)
     /\ _ident_rx(last.table))
        => ~last.query


(***************************************************************************)
(* The backend functions in detail.  A text, a name and a stored value are *)
(* sequences of characters; a call is a step on one store: db is a         *)
(* GeoPackage file or a PostgreSQL catalog, last holds the call's          *)
(* arguments and what it gave.                                             *)
(***************************************************************************)
\* SQL NULL, a missing row, and the server's syntax error
None == <<"<None>">>
NoRow == <<"<no row>">>
SyntaxError == <<"<syntax error>">>

\* a text with every fixed candidate of _pick_dollar_tag in it: $$q$qq$zzz$
AllFixed == <<"$", "$", "q", "$", "q", "q", "$", "z", "z", "z", "$">>

\* the comment texts: empty, plain, with $$ and a quote and a newline, ending
\* in a dollar sign, with every fixed candidate
CommentTexts == {<<>>, <<"a">>, <<"$", "$", "'", "\n">>, <<"a", "$">>, AllFixed}

\* a description column holds a non-empty text or NULL
Descriptions == (CommentTexts \ {<<>>}) \cup {None}

\* text if text != "" else None
EmptyToNone(text) == IF Len(text) = 0 THEN None ELSE text
\* row[0] if row and row[0] else "" / rows[0][0] or ""
ValueOrEmpty(row) == IF row \in {NoRow, None} THEN <<>> ELSE row

(***************************************************************************)
(* GeoPackage: gpkg_contents has one row, for the table stored as Roads,   *)
(* whose columns are a and b; gpkg_data_columns has a row or none for each *)
(* <<table_name, column_name>>.                                            *)
(***************************************************************************)
Roads == <<"R", "o", "a", "d", "s">>
\* the names a layer may give for the table
TableNames == {Roads, <<"r", "o", "a", "d", "s">>, <<"R", "O", "A", "D", "S">>}
\* PRAGMA table_info(Roads), r[1] of every row
TableInfo == <<<<"a">>, <<"b">>>>
\* the names a caller may give for a column
ColumnNames == {<<"a">>, <<"b">>, <<"A">>}

DataKeys == TableNames \X ColumnNames

GpkgFiles ==
    {[backend |-> "gpkg", contents |-> [n \in {Roads} |-> d],
      data_columns |-> [k \in DataKeys |->
                           IF k = <<Roads, <<"a">>>> THEN ra
                           ELSE IF k = <<Roads, <<"b">>>> THEN rb ELSE NoRow]] :
        d \in Descriptions, ra \in Descriptions \cup {NoRow}, rb \in Descriptions \cup {NoRow}}

\* SELECT description FROM gpkg_contents WHERE table_name = ?
SelectContents(file, table) ==
    IF table \in DOMAIN file.contents THEN file.contents[table] ELSE NoRow

\* UPDATE gpkg_contents SET description = ? WHERE table_name = ?
UpdateContents(file, table, value) ==
    IF table \in DOMAIN file.contents
    THEN [file EXCEPT !.contents = [file.contents EXCEPT ![table] = value]]
    ELSE file

\* SELECT table_name FROM gpkg_contents WHERE lower(table_name)=lower(?)
_gpkg__canonical_table(file, table) ==
    LET rows == {n \in DOMAIN file.contents : Lower(n) = Lower(table)}
    IN  IF rows = {} THEN table ELSE CHOOSE n \in rows : TRUE

\* PRAGMA table_info("<table_exact>"): SQLite finds a table whatever the case
_gpkg__canonical_column(file, table_exact, col) ==
    LET info == IF Lower(table_exact) = Lower(Roads) THEN TableInfo ELSE <<>>
        hits == {i \in 1..Len(info) : Lower(info[i]) = Lower(col)}
    IN  IF hits = {} THEN col
        ELSE info[CHOOSE i \in hits : \A k \in hits : i <= k]

\* the four functions, on the file and the table name of the layer
GpkgFetchComment(file, table) == ValueOrEmpty(SelectContents(file, table))

GpkgSetComment(file, table, text) == UpdateContents(file, table, EmptyToNone(text))

\* <<table_exact, col_exact>>, the key both column functions use
DataKey(file, table, col) ==
    <<_gpkg__canonical_table(file, table),
      _gpkg__canonical_column(file, _gpkg__canonical_table(file, table), col)>>

\* SELECT description FROM gpkg_data_columns WHERE table_name=? AND column_name=?
GpkgFetchColumnComment(file, table, col) ==
    ValueOrEmpty(file.data_columns[DataKey(file, table, col)])

\* GpkgSetColumnComment, had it set the description of every row of the table
GpkgSetColumnComment_every_column(file, table, col, text) ==
    [file EXCEPT !.data_columns =
        [k \in DataKeys |-> IF k[1] = _gpkg__canonical_table(file, table)
                            THEN EmptyToNone(text) ELSE file.data_columns[k]]]

\* INSERT ... ON CONFLICT(table_name, column_name) DO UPDATE SET description
GpkgSetColumnComment(file, table, col, text) ==
    [file EXCEPT !.data_columns =
        [file.data_columns EXCEPT ![DataKey(file, table, col)] = EmptyToNone(text)]]

(***************************************************************************)
(* PostgreSQL: the catalog has one relation, s.t, with columns a and b.    *)
(* The functions build a statement; the server resolves the quoted names   *)
(* and reads the dollar-quoted literal as its lexer does.                  *)
(***************************************************************************)
PgSchema == <<"s">>
PgTable == <<"t">>
PgColumns == {<<"a">>, <<"b">>}

PgCatalogs ==
    {[backend |-> "pg", rel |-> d, col |-> [c \in PgColumns |-> IF c = <<"a">> THEN ca ELSE cb]] :
        d \in Descriptions, ca \in Descriptions, cb \in Descriptions}

\* name.replace('"', '""')
RECURSIVE DoubleQuotes(_)
DoubleQuotes(name) ==
    IF name = <<>> THEN <<>>
    ELSE (IF Head(name) = "\"" THEN <<"\"", "\"">> ELSE <<Head(name)>>)
         \o DoubleQuotes(Tail(name))

_quote_ident(name) == <<"\"">> \o DoubleQuotes(name) \o <<"\"">>

\* the quoted parts of the dotted name
_qualify(schema, table) == <<_quote_ident(schema), _quote_ident(table)>>

\* the server reading a quoted identifier: "" inside stands for one quote
RECURSIVE Undouble(_)
Undouble(s) ==
    IF Len(s) < 2 THEN s
    ELSE IF s[1] = "\"" /\ s[2] = "\"" THEN <<"\"">> \o Undouble(SubSeq(s, 3, Len(s)))
    ELSE <<s[1]>> \o Undouble(Tail(s))

Unquote(q) == Undouble(SubSeq(q, 2, Len(q) - 1))

\* the six hexadecimal digits str(uuid.uuid4()) may start with
UuidHex == {<<"a", "b", "c", "d", "e", "f">>, <<"0", "a", "1", "b", "2", "c">>}

\* hex is what uuid4 gives when the four candidates are all in the text
_pick_dollar_tag(text, hex) ==
    IF ~Contains(text, <<"$", "$">>) THEN <<"$", "$">>
    ELSE IF ~Contains(text, <<"$", "q", "$">>) THEN <<"$", "q", "$">>
    ELSE IF ~Contains(text, <<"$", "q", "q", "$">>) THEN <<"$", "q", "q", "$">>
    ELSE IF ~Contains(text, <<"$", "z", "z", "z", "$">>) THEN <<"$", "z", "z", "z", "$">>
    ELSE <<"$">> \o hex \o <<"$">>

\* the tags a call may pick for a text
PickedTags(text) == {_pick_dollar_tag(text, hex) : hex \in UuidHex}

\* the server's lexer: a dollar-quote delimiter is $$ or $tag$ where tag starts
\* with a letter or underscore and goes on with letters, digits, underscores
DolqStart == {"a", "b", "c", "d", "e", "f", "q", "z", "_"}
DolqCont == DolqStart \cup {"0", "1", "2"}

IsDelimiter(tag) ==
    /\ Len(tag) >= 2
    /\ tag[1] = "$" /\ tag[Len(tag)] = "$"
    /\ Len(tag) > 2 => tag[2] \in DolqStart
    /\ \A i \in 3..(Len(tag) - 1) : tag[i] \in DolqCont

\* the first position at or after from where sub occurs in s, 0 if nowhere
FirstAt(s, sub, from) ==
    LET hits == {i \in from..(Len(s) - Len(sub) + 1) : SubSeq(s, i, i + Len(sub) - 1) = sub}
    IN  IF hits = {} THEN 0 ELSE CHOOSE i \in hits : \A k \in hits : i <= k

\* the string constant that the characters after IS, up to the semicolon,
\* denote: the opening delimiter ends at the second dollar sign, the constant at
\* the delimiter's next occurrence, and nothing may follow it
DollarQuoted(chars) ==
    LET second == FirstAt(chars, <<"$">>, 2)
        tag    == SubSeq(chars, 1, second)
        close  == FirstAt(chars, tag, second + 1)
    IN  IF Len(chars) = 0 \/ chars[1] # "$" \/ second = 0 THEN SyntaxError
        ELSE IF ~IsDelimiter(tag) \/ close = 0 THEN SyntaxError
        ELSE IF close + Len(tag) - 1 # Len(chars) THEN SyntaxError
        ELSE SubSeq(chars, second + 1, close - 1)

\* _pg_comment_keyword, had it answered TABLE for every relation
_pg_comment_keyword_table_only(relkind) == "TABLE"

\* mapping.get(relkind, 'TABLE'); relkind is None when the lookup has no row
_pg_comment_keyword(relkind) ==
    CASE relkind \in {"r", "p"} -> "TABLE"
      [] relkind = "v" -> "VIEW"
      [] relkind = "m" -> "MATERIALIZED VIEW"
      [] relkind = "f" -> "FOREIGN TABLE"
      [] OTHER -> "TABLE"

\* what the relation-kind lookup gives: it raises, has no row, or a relkind
Lookups == {"raise", "norow", "r", "p", "v", "m", "f", "c"}

\* COMMENT ON <kw> <object> IS NULL; / IS <tag><text><tag>;
CommentSql(kw, object, text, tag) ==
    [kw |-> kw, object |-> object,
     is |-> IF Len(text) = 0 THEN None ELSE tag \o text \o tag]

\* the value a COMMENT statement stores, SyntaxError when the server rejects it
Stored(sql) == IF sql.is = None THEN None ELSE EmptyToNone(DollarQuoted(sql.is))

\* conn.executeSql(sql) of a COMMENT statement: exec says whether the server
\* carries out a well-formed statement on an existing object
ExecuteComment(cat, sql, exec) ==
    LET names == [i \in 1..Len(sql.object) |-> Unquote(sql.object[i])]
        value == Stored(sql)
        found == /\ names[1] = PgSchema /\ names[2] = PgTable
                 /\ Len(names) = 3 => names[3] \in PgColumns
    IN  IF ~exec \/ ~found \/ value = SyntaxError
        THEN [db |-> cat, raised |-> TRUE]
        ELSE IF Len(names) = 3
        THEN [db |-> [cat EXCEPT !.col = [cat.col EXCEPT ![names[3]] = value]], raised |-> FALSE]
        ELSE [db |-> [cat EXCEPT !.rel = value], raised |-> FALSE]

\* SELECT relkind FROM pg_class WHERE oid = '<reg>'::regclass;
RelkindSql(reg) == [kw |-> "SELECT relkind", object |-> reg, is |-> None]

\* the statements _set_comment sends on the connection, in order: the lookup
\* of _pg_comment_keyword and, unless that raised, the COMMENT statement
SentBySetComment(schema, table, text, lookup, tag) ==
    <<RelkindSql(_qualify(schema, table))>>
        \o (IF lookup = "raise" THEN <<>>
            ELSE <<CommentSql(_pg_comment_keyword(lookup), _qualify(schema, table),
                              text, tag)>>)

\* _set_comment: the keyword lookup is outside any try
PgSetComment(cat, schema, table, text, lookup, exec, tag) ==
    LET sent == SentBySetComment(schema, table, text, lookup, tag)
    IN  IF Len(sent) = 1 THEN [db |-> cat, raised |-> TRUE]
        ELSE ExecuteComment(cat, sent[2], exec)

PgSetColumnComment(cat, schema, table, col, text, exec, tag) ==
    ExecuteComment(cat, CommentSql("COLUMN", _qualify(schema, table) \o <<_quote_ident(col)>>,
                                   text, tag), exec)

\* SELECT obj_description('<regclass>'::regclass): rows[0][0] or ""
PgFetchComment(cat) == ValueOrEmpty(cat.rel)

\* SELECT col_description(...) WHERE a.attname = <col>: no row for no such column
PgFetchColumnComment(cat, col) ==
    ValueOrEmpty(IF col \in PgColumns THEN cat.col[col] ELSE NoRow)

(***************************************************************************)
(* One call of a backend function on a store.                              *)
(***************************************************************************)
NoCall ==
    [op |-> "none", table |-> <<>>, col |-> <<>>, text |-> <<>>, lookup |-> "",
     exec |-> TRUE, tag |-> <<>>, raised |-> FALSE, result |-> <<>>, sent |-> <<>>]

InitBackends ==
    /\ dlg = <<>>
    /\ abstract = <<>>
    /\ syncAll = FALSE
    /\ events = 0
    /\ db \in GpkgFiles \cup PgCatalogs
    /\ last = NoCall

\* no call was made on this store yet, which is of this backend
Ready(backend) == last.op = "none" /\ db.backend = backend

\* the call made
Called(call) ==
    /\ last' = call
    /\ events' = events + 1
    /\ UNCHANGED <<dlg, abstract, syncAll>>

CallGpkgFetchComment ==
    /\ Ready("gpkg")
    /\ \E table \in TableNames :
          Called([NoCall EXCEPT !.op = "_gpkg_fetch_comment", !.table = table,
                                !.result = GpkgFetchComment(db, table)])
    /\ UNCHANGED db

CallGpkgSetComment ==
    /\ Ready("gpkg")
    /\ \E table \in TableNames, text \in CommentTexts :
          /\ Called([NoCall EXCEPT !.op = "_gpkg_set_comment", !.table = table,
                                   !.text = text])
          /\ db' = GpkgSetComment(db, table, text)

CallGpkgFetchColumnComment ==
    /\ Ready("gpkg")
    /\ \E table \in TableNames, col \in ColumnNames :
          Called([NoCall EXCEPT !.op = "_gpkg_fetch_column_comment",
                                !.table = table, !.col = col,
                                !.result = GpkgFetchColumnComment(db, table, col)])
    /\ UNCHANGED db

CallGpkgSetColumnComment ==
    /\ Ready("gpkg")
    /\ \E table \in TableNames, col \in ColumnNames, text \in CommentTexts :
          /\ Called([NoCall EXCEPT !.op = "_gpkg_set_column_comment",
                                   !.table = table, !.col = col, !.text = text])
          /\ db' = GpkgSetColumnComment(db, table, col, text)

CallFetchComment ==
    /\ Ready("pg")
    /\ Called([NoCall EXCEPT !.op = "_fetch_comment", !.table = PgTable,
                             !.result = PgFetchComment(db)])
    /\ UNCHANGED db

CallSetComment ==
    /\ Ready("pg")
    /\ \E text \in CommentTexts, lookup \in Lookups, exec \in BOOLEAN :
          \E tag \in PickedTags(text) :
              \E out \in {PgSetComment(db, PgSchema, PgTable, text, lookup, exec, tag)} :
                  /\ Called([NoCall EXCEPT !.op = "_set_comment", !.table = PgTable,
                                           !.text = text, !.lookup = lookup,
                                           !.exec = exec, !.tag = tag,
                                           !.raised = out.raised,
                                           !.sent = SentBySetComment(PgSchema, PgTable,
                                                                     text, lookup, tag)])
                  /\ db' = out.db

CallPgFetchColumnComment ==
    /\ Ready("pg")
    /\ \E col \in PgColumns :
          Called([NoCall EXCEPT !.op = "_pg_fetch_column_comment",
                                !.table = PgTable, !.col = col,
                                !.result = PgFetchColumnComment(db, col)])
    /\ UNCHANGED db

CallPgSetColumnComment ==
    /\ Ready("pg")
    /\ \E col \in PgColumns, text \in CommentTexts, exec \in BOOLEAN :
          \E tag \in PickedTags(text) :
              \E out \in {PgSetColumnComment(db, PgSchema, PgTable, col, text, exec, tag)} :
                  /\ Called([NoCall EXCEPT !.op = "_pg_set_column_comment",
                                           !.table = PgTable, !.col = col,
                                           !.text = text, !.exec = exec, !.tag = tag,
                                           !.raised = out.raised])
                  /\ db' = out.db

NextBackends ==
    \/ CallGpkgFetchComment
    \/ CallGpkgSetComment
    \/ CallGpkgFetchColumnComment
    \/ CallGpkgSetColumnComment
    \/ CallFetchComment
    \/ CallSetComment
    \/ CallPgFetchColumnComment
    \/ CallPgSetColumnComment

SpecBackends == InitBackends /\ [][NextBackends]_vars

(***************************************************************************)
(* Properties of SpecBackends.                                             *)
(***************************************************************************)
\* the rows of gpkg_data_columns that a name for the table and the column
\* stored as col may refer to
RowsFor(file, col) ==
    {k \in DataKeys : Lower(k[1]) = Lower(Roads) /\ Lower(k[2]) = Lower(col)
                      /\ file.data_columns[k] # NoRow}

\* C14: the table being stored as Roads, a call that names it roads, ROADS or
\* Roads reads and writes the rows stored for Roads: a relation-level fetch
\* returns the description of Roads, a relation-level set stores the text in
\* it, a column-level fetch returns the description of the column's row and a
\* column-level set stores the text in it; no set leaves the store as it was
\* when the text differs from what is stored, and none makes a second row.
C14_TableNameCaseInsensitive ==
    [][/\ last'.op = "_gpkg_fetch_comment"
            => last'.result = ValueOrEmpty(db.contents[Roads])
       /\ last'.op = "_gpkg_set_comment"
            => /\ db'.contents[Roads] = EmptyToNone(last'.text)
               /\ DOMAIN db'.contents = {Roads}
       /\ last'.op = "_gpkg_fetch_column_comment"
            => last'.result
                  = ValueOrEmpty(db.data_columns[<<Roads, Lower(last'.col)>>])
       /\ last'.op = "_gpkg_set_column_comment"
            => /\ db'.data_columns[<<Roads, Lower(last'.col)>>] = EmptyToNone(last'.text)
               /\ RowsFor(db', last'.col) = {<<Roads, Lower(last'.col)>>}]_vars


\* C15: a relation-level set of a text T that the backend carries out (the
\* GeoPackage table named as stored; the PostgreSQL lookup answering and the
\* server executing what it is sent), followed by a relation-level fetch of
\* the same relation, returns exactly T: the empty text is stored as NULL and
\* fetched as the empty text, and a text with $$, quotes or newlines comes
\* back unchanged.
C15_RelationCommentRoundTrip ==
    [][/\ (last'.op = "_gpkg_set_comment" /\ last'.table = Roads)
            => GpkgFetchComment(db', Roads) = last'.text
       /\ (last'.op = "_set_comment" /\ last'.lookup # "raise" /\ last'.exec)
            => /\ ~last'.raised
               /\ PgFetchComment(db') = last'.text]_vars


(***************************************************************************)
(* _pick_dollar_tag as a function of the text.  last holds the text, then  *)
(* the tag returned.                                                       *)
(***************************************************************************)
\* what the texts are made of: a letter, the fixed candidates, one by one and
\* all together, and tags made of a uuid's digits
TagFragments ==
    {<<"a">>, <<"$", "$">>, <<"$", "q", "$">>, <<"$", "q", "q", "$">>,
     <<"$", "z", "z", "z", "$">>, AllFixed}
        \cup {<<"$">> \o hex \o <<"$">> : hex \in UuidHex}

RECURSIVE TagTexts(_)
TagTexts(n) ==
    IF n = 0 THEN {<<>>}
    ELSE LET shorter == TagTexts(n - 1)
         IN  shorter \cup {p \o f : p \in shorter, f \in TagFragments}

InitDollarTag ==
    /\ NoDialog
    /\ \E text \in TagTexts(MaxParts) : last = [op |-> "text", text |-> text, tag |-> <<>>]

\* _pick_dollar_tag(text)
CallPickDollarTag ==
    /\ last.op = "text"
    /\ \E hex \in UuidHex :
          last' = [last EXCEPT !.op = "_pick_dollar_tag",
                               !.tag = _pick_dollar_tag(last.text, hex)]
    /\ events' = events + 1
    /\ UNCHANGED <<dlg, db, abstract, syncAll>>

SpecDollarTag == InitDollarTag /\ [][CallPickDollarTag]_vars

\* C16: the tag that _pick_dollar_tag returns for a text is not a substring
\* of the text, whatever the text contains.
C16_TagNotInText ==
    last.op = "_pick_dollar_tag" => ~Contains(last.text, last.tag)


\* C17: on either backend, a call that sets the comment of a column leaves the
\* stored comment of every other column of the table and the relation-level
\* comment as they were, and a call that sets the relation-level comment
\* leaves every column comment as it was.
C17_ColumnCommentIsolation ==
    [][/\ last'.op = "_gpkg_set_column_comment"
            => /\ db'.contents = db.contents
               /\ \A k \in DataKeys :
                     Lower(k[2]) # Lower(last'.col)
                        => db'.data_columns[k] = db.data_columns[k]
       /\ last'.op = "_gpkg_set_comment"
            => db'.data_columns = db.data_columns
       /\ last'.op = "_pg_set_column_comment"
            => /\ db'.rel = db.rel
               /\ \A c \in PgColumns \ {last'.col} : db'.col[c] = db.col[c]
       /\ last'.op = "_set_comment"
            => db'.col = db.col]_vars

\* column a's comment was set, through another spelling of the table and the
\* column, next to a different comment on column b and on the table
C17_Witness ==
    /\ last.op = "_gpkg_set_column_comment"
    /\ last.table = <<"R", "O", "A", "D", "S">> /\ last.col = <<"A">>
    /\ last.text = <<"$", "$", "'", "\n">>
    /\ db.data_columns[<<Roads, <<"a">>>>] = last.text
    /\ db.data_columns[<<Roads, <<"b">>>>] = <<"a">>
    /\ db.contents[Roads] = <<"a", "$">>


\* C18: a relation-level write whose relation-kind lookup raises, has no row
\* or gives a code outside the mapping does what the write does for an
\* ordinary table (keyword TABLE): it raises only if that write raises, and
\* stores what that write stores.
C18_ClassificationFallsBackToTable ==
    [][(last'.op = "_set_comment" /\ last'.lookup \in {"raise", "norow", "c"})
          => [db |-> db', raised |-> last'.raised]
                = PgSetComment(db, PgSchema, PgTable, last'.text, "r",
                               last'.exec, last'.tag)]_vars


(***************************************************************************)
(* _relation_key_from_layer and _layers_sharing_relation as functions of a *)
(* layer and of the project's layers.  last holds the project and the      *)
(* layer passed, then what the call gave.                                  *)
(***************************************************************************)
\* mapLayers() iterates in id order
HandlesInOrder == <<"g1", "g2", "g3", "p1", "p2", "p3", "p4", "q1", "u1", "x1">>

\* the projects: any layers, at least one
Projects == {FilterSeq(HandlesInOrder, loaded) : loaded \in (SUBSET Handles) \ {{}}}

Loaded(project) == {project[i] : i \in 1..Len(project)}

InitRelationKey ==
    /\ NoDialog
    /\ \E project \in Projects :
          last = [op |-> "project", project |-> project, handle |-> "",
                  raised |-> FALSE, key |-> <<>>, out |-> <<>>]

\* _relation_key_from_layer(lyr) for a layer of the project
CallRelationKeyFromLayer ==
    /\ last.op = "project"
    /\ \E lyr \in Loaded(last.project) :
          last' = [last EXCEPT !.op = "_relation_key_from_layer", !.handle = lyr,
                               !.raised = _relation_key_raises(lyr),
                               !.key = IF _relation_key_raises(lyr) THEN <<>>
                                       ELSE _relation_key_from_layer(lyr)]
    /\ events' = events + 1
    /\ UNCHANGED <<dlg, db, abstract, syncAll>>

\* _layers_sharing_relation(lyr): line 299 is outside the try of the loop
CallLayersSharingRelation ==
    /\ last.op = "project"
    /\ \E lyr \in Loaded(last.project) :
          last' = [last EXCEPT !.op = "_layers_sharing_relation", !.handle = lyr,
                               !.raised = _relation_key_raises(lyr),
                               !.out = IF _relation_key_raises(lyr) THEN <<>>
                                       ELSE LayersSharing(last.project, lyr)]
    /\ events' = events + 1
    /\ UNCHANGED <<dlg, db, abstract, syncAll>>

NextRelationKey == CallRelationKeyFromLayer \/ CallLayersSharingRelation

SpecRelationKey == InitRelationKey /\ [][NextRelationKey]_vars

(***************************************************************************)
(* Properties of SpecRelationKey.                                          *)
(***************************************************************************)
\* a GeoPackage layer whose source has no layer name, or no path
UndecodableHandles == {h \in Handles : _is_gpkg_layer(h) /\ _gpkg_path_and_table_raises(h)}

\* C19: _relation_key_from_layer returns a key or None for every layer and
\* never raises, and _layers_sharing_relation of a layer whose source cannot
\* be decoded returns that layer alone.
C19_KeyNeverRaises ==
    /\ last.op = "_relation_key_from_layer" => ~last.raised
    /\ (last.op = "_layers_sharing_relation" /\ last.handle \in UndecodableHandles)
          => ~last.raised /\ last.out = <<last.handle>>

\* the layers of the project whose key is the key of h
SameKeyIn(project, h) ==
    {x \in Loaded(project) : /\ ~_relation_key_raises(x)
                             /\ _relation_key_from_layer(x) = _relation_key_from_layer(h)}

\* a layer the plugin has a key for
HasKey(h) == ~_relation_key_raises(h) /\ _relation_key_from_layer(h) # <<>>

\* C20: _layers_sharing_relation(h) returns exactly the layers of the project
\* whose key equals the key of h when h has a key, each of them once, and h
\* alone when h has none; so it returns the same layers whichever of the
\* layers of one relation is passed.
C20_SiblingsAreTheLayersOfTheKey ==
    last.op = "_layers_sharing_relation"
        => /\ ~last.raised
           /\ HasKey(last.handle)
                 => /\ Loaded(last.out) = SameKeyIn(last.project, last.handle)
                    /\ Len(last.out) = Cardinality(Loaded(last.out))
                    /\ \A x \in Loaded(last.out) :
                          LayersSharing(last.project, x) = last.out
           /\ ~HasKey(last.handle) => last.out = <<last.handle>>


\* C21: of two layers that both have a key, the keys are equal if and only if
\* the layers address the same physical relation: the same PostgreSQL table
\* (localhost being the loopback address, the database name in any case) or
\* the same table of the same GeoPackage file as the file stores it; a
\* PostgreSQL key never equals a GeoPackage key.
C21_EqualKeysIffSameRelation ==
    (last.op = "_relation_key_from_layer" /\ ~last.raised /\ last.key # <<>>)
        => \A x \in Loaded(last.project) :
              HasKey(x)
                 => /\ (_relation_key_from_layer(x) = last.key) <=> (Rel(x) = Rel(last.handle))
                    /\ _is_postgres_layer(x) # _is_postgres_layer(last.handle)
                          => _relation_key_from_layer(x) # last.key


\* C22: in every call of _set_comment, the relation-level write of update and
\* revert on PostgreSQL, the first statement sent is the relation-kind lookup,
\* a COMMENT statement is sent only after it, and its keyword is the one the
\* lookup's result maps to: r and p to TABLE, v to VIEW, m to MATERIALIZED
\* VIEW, f to FOREIGN TABLE.
C22_LookupBeforeCommentStatement ==
    last.op = "_set_comment"
        => /\ Len(last.sent) \in {1, 2}
           /\ last.sent[1].kw = "SELECT relkind"
           /\ last.sent[1].object = _qualify(PgSchema, PgTable)
           /\ ~last.raised => Len(last.sent) = 2
           /\ Len(last.sent) = 2
                 => /\ last.sent[2].object = last.sent[1].object
                    /\ last.lookup \in {"r", "p"} => last.sent[2].kw = "TABLE"
                    /\ last.lookup = "v" => last.sent[2].kw = "VIEW"
                    /\ last.lookup = "m" => last.sent[2].kw = "MATERIALIZED VIEW"
                    /\ last.lookup = "f" => last.sent[2].kw = "FOREIGN TABLE"

\* a comment with $$, a quote and a newline written on a materialized view
C22_Witness ==
    /\ last.op = "_set_comment" /\ last.lookup = "m" /\ ~last.raised
    /\ Len(last.sent) = 2 /\ last.sent[2].kw = "MATERIALIZED VIEW"
    /\ last.text = <<"$", "$", "'", "\n">> /\ db.rel = last.text


(***************************************************************************)
(* The session in which every backend call succeeds: the steps of Spec     *)
(* whose fetches, column listings and writes do not raise.  What the       *)
(* layers' Abstract setters do stays an input.                             *)
(***************************************************************************)
AllLoads == [fetch |-> TRUE, colfetch |-> TRUE, list |-> TRUE]

\* the constructor's fetch and its column listing succeeded
InitNoFailure == Init /\ dlg.status = "Loaded" /\ Len(dlg.targets) > 1

SelectObjectNoFailure ==
    /\ SelectObject
    /\ dlg' = _rebuild_target_list(
                  _load_selected([dlg EXCEPT !.idx = dlg'.idx], db, AllLoads), AllLoads)

SelectTargetNoFailure ==
    /\ SelectTarget
    /\ dlg' = _load_target([dlg EXCEPT !.tidx = dlg'.tidx], db, AllLoads)

UpdateCommentNoFailure == UpdateComment /\ ~last'.wfail

RevertCommentNoFailure == RevertComment /\ ~last'.wfail

NextNoFailure ==
    \/ EditText
    \/ ToggleSync
    \/ SelectObjectNoFailure
    \/ SelectTargetNoFailure
    \/ UpdateCommentNoFailure
    \/ RevertCommentNoFailure

SpecNoFailure == InitNoFailure /\ [][NextNoFailure]_vars

\* C23: in a session in which no backend call failed, the EditBaseline entry
\* of the selected (handle, target), when there is one, equals the comment
\* stored in the backend for that target, NULL read as "".
C23_BaselineEqualsStored ==
    Entry(dlg, Cur, Kind, Col) # NoEntry
        => Entry(dlg, Cur, Kind, Col) = OrEmpty(db[CurSlot])


\* C24: a revert leaves the comment stored in the backend for the selected
\* target as it was before the revert, whatever happened before it in the
\* session, failed loads included.
C24_RevertKeepsStoredComment ==
    [][StepOf("revert") => db'[CurSlot] = db[CurSlot]]_vars


(***************************************************************************)
(* The GeoPackage functions as programs on sqlite3 connections.  Every     *)
(* function is con = sqlite3.connect(...), then try: its statements,       *)
(* finally: con.close().  A step is one statement; db is the stack of      *)
(* connections that are open, last.stack the frames of the functions that  *)
(* are running: pc = 0 before connect, 1..n at the n statements of the     *)
(* try block, n + 1 when the block is done.  last.raising says an          *)
(* exception is travelling up the frames.                                  *)
(***************************************************************************)
GpkgFunctions ==
    {"_gpkg_fetch_comment", "_gpkg_set_comment", "_gpkg__canonical_table",
     "_gpkg__canonical_column", "_gpkg_list_columns", "_gpkg_fetch_column_comment",
     "_gpkg_set_column_comment"}

\* the try block of each function: "sql" is a statement executed on the
\* function's own connection, a function name a call of that function
TryBlock(fn) ==
    CASE fn = "_gpkg_fetch_comment" -> <<"sql", "sql", "sql">>
      [] fn = "_gpkg_set_comment" -> <<"sql", "sql", "sql">>
      [] fn = "_gpkg__canonical_table" -> <<"sql", "sql">>
      [] fn = "_gpkg__canonical_column" -> <<"sql", "sql">>
      [] fn = "_gpkg_list_columns" -> <<"sql", "_gpkg__canonical_table", "sql", "sql">>
      [] fn = "_gpkg_fetch_column_comment" ->
            <<"sql", "sql", "_gpkg__canonical_table", "_gpkg__canonical_column", "sql">>
      [] OTHER ->
            <<"sql", "sql", "_gpkg__canonical_table", "_gpkg__canonical_column",
              "sql", "sql">>

\* ClosesOnExit, had con.close() been the last statement of the try block
ClosesOnExit_without_exception(raising) == ~raising

\* finally: con.close() runs however the try block is left
ClosesOnExit(raising) == TRUE

Top == last.stack[Len(last.stack)]
Running == Len(last.stack) > 0
SetTop(frame) == [last.stack EXCEPT ![Len(last.stack)] = frame]
Popped == SubSeq(last.stack, 1, Len(last.stack) - 1)

InitConnections ==
    /\ dlg = <<>>
    /\ abstract = <<>>
    /\ syncAll = FALSE
    /\ events = 0
    /\ db = <<>>
    /\ last = [op |-> "none", stack |-> <<>>, raising |-> FALSE, opened |-> 0]

\* the dialog calls one of the functions
CallGpkgFunction ==
    /\ ~Running
    /\ \E fn \in GpkgFunctions :
          last' = [op |-> fn, stack |-> <<[fn |-> fn, pc |-> 0]>>,
                   raising |-> FALSE, opened |-> 0]
    /\ UNCHANGED <<dlg, db, abstract, syncAll, events>>

\* con = sqlite3.connect(path, timeout=2), before the try: when it raises
\* there is no connection and the exception leaves the function
Connect ==
    /\ Running /\ ~last.raising /\ Top.pc = 0
    /\ \/ /\ db' = Append(db, Top.fn)
          /\ last' = [last EXCEPT !.stack = SetTop([Top EXCEPT !.pc = 1]),
                                  !.opened = last.opened + 1]
       \/ /\ db' = db
          /\ last' = [last EXCEPT !.stack = Popped, !.raising = TRUE]
    /\ UNCHANGED <<dlg, abstract, syncAll, events>>

\* con.execute(...) / fetchone() / commit() in the try block
Statement ==
    /\ Running /\ ~last.raising
    /\ Top.pc \in 1..Len(TryBlock(Top.fn))
    /\ TryBlock(Top.fn)[Top.pc] = "sql"
    /\ \/ last' = [last EXCEPT !.stack = SetTop([Top EXCEPT !.pc = Top.pc + 1])]
       \/ last' = [last EXCEPT !.raising = TRUE]
    /\ UNCHANGED <<dlg, db, abstract, syncAll, events>>

\* _gpkg__canonical_table(...) / _gpkg__canonical_column(...) in the try block
CallHelper ==
    /\ Running /\ ~last.raising
    /\ Top.pc \in 1..Len(TryBlock(Top.fn))
    /\ TryBlock(Top.fn)[Top.pc] # "sql"
    /\ last' = [last EXCEPT !.stack = Append(last.stack,
                                             [fn |-> TryBlock(Top.fn)[Top.pc], pc |-> 0])]
    /\ UNCHANGED <<dlg, db, abstract, syncAll, events>>

\* the try block is left, by its end or by an exception: finally, then the
\* function returns or the exception goes on to the caller
Leave ==
    /\ Running
    /\ Top.pc >= 1
    /\ last.raising \/ Top.pc = Len(TryBlock(Top.fn)) + 1
    /\ db' = IF ClosesOnExit(last.raising) THEN SubSeq(db, 1, Len(db) - 1) ELSE db
    /\ last' = [last EXCEPT !.stack =
                   IF Len(Popped) > 0 /\ ~last.raising
                   THEN [Popped EXCEPT ![Len(Popped)] =
                            [Popped[Len(Popped)] EXCEPT !.pc = Popped[Len(Popped)].pc + 1]]
                   ELSE Popped]
    /\ UNCHANGED <<dlg, abstract, syncAll, events>>

NextConnections == CallGpkgFunction \/ Connect \/ Statement \/ CallHelper \/ Leave

SpecConnections == InitConnections /\ [][NextConnections]_vars

\* C25: the connections that are open are those of the functions that are
\* running inside their try block, one each: a function that returned, or
\* that an exception left, has closed the connection it opened, and between
\* two operations no connection is open.
C25_ConnectionsClosedOnReturn ==
    /\ Len(db) = Cardinality({i \in 1..Len(last.stack) : last.stack[i].pc >= 1})
    /\ ~Running => db = <<>>

\* _gpkg_set_column_comment was left by an exception after it had opened its
\* connection and the two lookups had opened and closed theirs
C25_Witness ==
    /\ last.op = "_gpkg_set_column_comment"
    /\ ~Running /\ last.raising /\ last.opened = 3
    /\ db = <<>>


(***************************************************************************)
(* The object list of a project: _populate_combo on the supported layers   *)
(* of the project, then a fan-out of the Abstract from one of its entries. *)
(***************************************************************************)
\* supported_layers() in a project
SupportedIn(project) ==
    FilterSeq(project,
              {l \in Handles : \/ _is_gpkg_layer(l)
                               \/ _is_postgres_layer(l) /\ ~_pg_is_query_layer(l)})

\* self._group_by_label[label]: the ids of the layers of that label, in the
\* order they were added
_group_by_label(layers, label) ==
    FilterSeq(layers, {l \in Handles : _label_for_layer(l) = label})

InitLabels ==
    /\ NoDialog
    /\ \E project \in Projects :
          last = [op |-> "project", project |-> project, layers |-> <<>>,
                  items |-> <<>>, groups |-> <<>>, entry |-> 0,
                  raised |-> FALSE, out |-> <<>>]

\* CommentNotepadDialog(parent) up to _populate_combo(): items are the
\* UserRole data of the entries, groups their UserRole + 1 data
CallPopulateCombo ==
    /\ last.op = "project"
    /\ LET layers == SupportedIn(last.project)
           items == _populate_combo(layers, {})
       IN  last' = [last EXCEPT !.op = "_populate_combo", !.layers = layers,
                                !.items = items,
                                !.groups = [i \in 1..Len(items) |->
                                               _group_by_label(layers,
                                                               _label_for_layer(items[i]))]]
    /\ events' = events + 1
    /\ UNCHANGED <<dlg, db, abstract, syncAll>>

\* _apply_abstract(self._current_layer(), txt) with the checkbox checked: out
\* are the layers whose Abstract is set
CallApplyAbstract ==
    /\ last.op = "_populate_combo"
    /\ \E entry \in 1..Len(last.items) :
          LET lyr == last.items[entry]
          IN  last' = [last EXCEPT !.op = "_apply_abstract", !.entry = entry,
                                   !.raised = _relation_key_raises(lyr),
                                   !.out = IF _relation_key_raises(lyr) THEN <<>>
                                           ELSE LayersSharing(last.project, lyr)]
    /\ events' = events + 1
    /\ UNCHANGED <<dlg, db, abstract, syncAll>>

NextLabels == CallPopulateCombo \/ CallApplyAbstract

SpecLabels == InitLabels /\ [][NextLabels]_vars

\* C26: once the object list is populated there is exactly one entry for
\* every label of a layer of the dialog, every layer of the dialog is in the
\* group of exactly one entry, and a fan-out from an entry that does not
\* raise sets the Abstract of every layer in the group of that entry.
C26_GroupIsReachedByFanOut ==
    last.op \in {"_populate_combo", "_apply_abstract"}
        => /\ \A l \in Loaded(last.layers) :
                 /\ Cardinality({i \in 1..Len(last.items) :
                                    _label_for_layer(last.items[i]) = _label_for_layer(l)}) = 1
                 /\ Cardinality({i \in 1..Len(last.items) :
                                    l \in Loaded(last.groups[i])}) = 1
           /\ (last.op = "_apply_abstract" /\ ~last.raised)
                 => Loaded(last.groups[last.entry]) \subseteq Loaded(last.out)


(***************************************************************************)
(* The plugin object of src/plugin.py in the Database menu.  db is the     *)
(* menu, a sequence of actions [id, text]; dlg is self.dlg: "None", or a   *)
(* dialog that is "visible" or "hidden".  last.action is self.action, 0    *)
(* for None; last.toolbar are the actions of the toolbar, last.deleted     *)
(* those that deleteLater() was called on and that the event loop has not  *)
(* destroyed yet; last.calls are the last three of the calls of initGui    *)
(* and unload.  A text is a sequence of pieces, "&" the mnemonic marker.   *)
(***************************************************************************)
\* deleteLater() calls that the event loop has not served yet
MaxDeferred == 3

MENU_TEXT == <<"Table Comment Notepad...">>

\* act.text().replace("&", "")
WithoutAmpersand(text) == FilterSeq(text, {"Table Comment Notepad...", "DB Manager..."})

\* the actions that were in the menu when the plugin was loaded: one of
\* another plugin, and what earlier loads of this plugin may have left
DbManager == [id |-> 1, text |-> <<"&", "DB Manager...">>]
Stale == <<[id |-> 2, text |-> MENU_TEXT], [id |-> 3, text |-> <<"&">> \o MENU_TEXT]>>

RECURSIVE Without(_, _)
\* the menu after menu.removeAction of the actions with these ids
Without(menu, ids) ==
    IF menu = <<>> THEN <<>>
    ELSE (IF Head(menu).id \in ids THEN <<>> ELSE <<Head(menu)>>) \o Without(Tail(menu), ids)

\* the ids of the actions of the menu whose text is MENU_TEXT
Matching(menu) ==
    {menu[i].id : i \in {j \in 1..Len(menu) : WithoutAmpersand(menu[j].text) = MENU_TEXT}}

\* RemoveByText, had the loop over menu.actions() been left out
RemoveByText_nothing(menu) == menu

\* for act in list(menu.actions()): if act.text().replace("&", "") == MENU_TEXT:
\* menu.removeAction(act)
RemoveByText(menu) == Without(menu, Matching(menu))

\* the objects that exist
Live == {db[i].id : i \in 1..Len(db)} \cup last.toolbar \cup last.deleted \cup {last.action}

\* QAction(...): an object that did not exist
NewAction == CHOOSE n \in 1..(Cardinality(Live) + 1) : n \notin Live

Recent(calls, call) ==
    IF Len(calls) < 3 THEN Append(calls, call) ELSE Append(Tail(calls), call)

\* TableCommentNotepadPlugin(iface)
InitPlugin ==
    /\ abstract = <<>>
    /\ syncAll = FALSE
    /\ events = 0
    /\ dlg = "None"
    /\ \E stale \in SUBSET {2, 3} :
          db = <<DbManager>> \o Without(Stale, {2, 3} \ stale)
    /\ last = [action |-> 0, toolbar |-> {}, deleted |-> {}, calls |-> <<>>]

initGui ==
    /\ Cardinality(last.deleted) < MaxDeferred
    /\ LET menu == RemoveByText(db)
           act == NewAction
       IN  /\ db' = Append(menu, [id |-> act, text |-> MENU_TEXT])
           /\ last' = [last EXCEPT !.action = act,
                                   !.toolbar = last.toolbar \cup {act},
                                   !.deleted = last.deleted \cup Matching(db),
                                   !.calls = Recent(last.calls, "initGui")]
    /\ UNCHANGED <<dlg, abstract, syncAll, events>>

unload ==
    /\ Cardinality(last.deleted) < MaxDeferred
    /\ dlg' = "None"
    /\ LET menu == Without(db, {last.action} \ {0})
       IN  /\ db' = RemoveByText(menu)
           /\ last' = [last EXCEPT !.action = 0,
                                   !.toolbar = last.toolbar \ {last.action},
                                   !.deleted = (last.deleted \cup Matching(menu)
                                                   \cup {last.action}) \ {0},
                                   !.calls = Recent(last.calls, "unload")]
    /\ UNCHANGED <<abstract, syncAll, events>>

\* self.action is triggered: run() up to exec(), with dialog.valid
run ==
    /\ last.action # 0
    /\ last.action \notin last.deleted
    /\ dlg # "visible"
    /\ \E valid \in BOOLEAN : dlg' = IF valid THEN "visible" ELSE "hidden"
    /\ UNCHANGED <<db, abstract, syncAll, last, events>>

\* the user closes the dialog: exec() returns
DialogClosed ==
    /\ dlg = "visible"
    /\ dlg' = "hidden"
    /\ UNCHANGED <<db, abstract, syncAll, last, events>>

\* the event loop destroys the objects that deleteLater() was called on, and
\* a destroyed action leaves every widget it was added to
DeferredDelete ==
    /\ last.deleted # {}
    /\ db' = Without(db, last.deleted)
    /\ last' = [last EXCEPT !.toolbar = last.toolbar \ last.deleted,
                            !.deleted = {}]
    /\ UNCHANGED <<dlg, abstract, syncAll, events>>

NextPlugin == initGui \/ unload \/ run \/ DialogClosed \/ DeferredDelete

SpecPlugin == InitPlugin /\ [][NextPlugin]_vars

\* C27: once initGui or unload has been called, the Database menu holds at
\* most one action whose text is the plugin's menu text, and when the last of
\* these calls is unload it holds none and self.action and self.dlg are None.
C27_AtMostOneMenuAction ==
    last.calls # <<>>
        => /\ Len(SelectSeq(db, LAMBDA a : WithoutAmpersand(a.text) = MENU_TEXT)) <= 1
           /\ last.calls[Len(last.calls)] = "unload"
                 => /\ Matching(db) = {}
                    /\ last.action = 0
                    /\ dlg = "None"

\* initGui twice, the dialog opened, then unload
C27_Witness ==
    /\ last.calls = <<"initGui", "initGui", "unload">>
    /\ Matching(db) = {} /\ last.action = 0 /\ dlg = "None"
    /\ Cardinality(last.deleted) = 2
    /\ Len(db) = 1

=============================================================================
